---- MODULE Spec2Model ----
(***************************************************************************)
(* torch/distributed/rpc.py: the process-wide RPC session (the module      *)
(* global _agent and the functions init_rpc, join_rpc, sync_rpc, get_id,   *)
(* rpc), run by several calling threads per process and by a group of      *)
(* worker processes.  The agent behind the session (ProcessGroupAgent,     *)
(* invoke_rpc, the future) is not part of rpc.py; it is modelled from the  *)
(* design document (sections 4.1 to 4.4).                                  *)
(*                                                                         *)
(* One step of a thread is one access to the shared global _agent or one   *)
(* blocking point: the interpreter may switch threads between any two.     *)
(***************************************************************************)
EXTENDS Integers, Sequences, FiniteSets, TLC

\* The group of the docstring example: init_process_group(..., world_size=2).
WorldSize == 2
\* Calling threads per process.
NumThreads == 2
\* Agents one process constructs in a run (sessions it opens).
MaxAgents == 2
\* Calls one process dispatches in a run.
MaxCalls == 2

Workers == 0 .. (WorldSize - 1)
Threads == 1 .. NumThreads
AllCallers == Workers \X Threads
AgentIds == 1 .. MaxAgents

\* _agent = None (line 9); an agent is named by its construction number.
None == 0

VARIABLES
    agent,      \* agent[w]: the module global _agent of process w
    nAgents,    \* nAgents[w]: agents process w has constructed so far
    astate,     \* astate[w][a]: "Unborn", "Active", "Draining", "Closed"
    nextId,     \* nextId[w][a]: the next CallId agent a of w hands out
    futs,       \* futs[w]: the futures of process w, in creation order
    net,        \* messages handed to the transport and not yet delivered
    th,         \* th[<<w, t>>]: where thread t of process w is, and its locals
    ret         \* what the step just taken returned or raised, if it did: the
                \* thread, the function, the outcome

vars == <<agent, nAgents, astate, nextId, futs, net, th, ret>>

----------------------------------------------------------------------------
(* Python values *)

\* A `to` / workerName argument: None, an int id, or a str name.  The name of
\* worker i is PyStr(i); PyStr(WorldSize) is the name of no worker.
PyNone == [k |-> "none", v |-> 0]
PyInt(i) == [k |-> "int", v |-> i]
PyStr(i) == [k |-> "str", v |-> i]
UnknownName == PyStr(WorldSize)

\* An args argument: None or a tuple.
ArgsNone == [k |-> "none", v |-> <<>>]
ArgsTuple(s) == [k |-> "tuple", v |-> s]

\* Python truth of a name-or-id value: None and 0 are false.
Truthy(x) ==
    CASE x.k = "none" -> FALSE
      [] x.k = "int" -> x.v # 0
      [] OTHER -> TRUE

\* Python truth of the agent handle: None is false, an agent object is true.
AgentTruthy(a) == a # None

\* isinstance(to, str)
IsStrNever(x) == FALSE
IsStr(x) == x.k = "str"

\* torch.jit._find_builtin(func): the qualified name, or "" for None.
FindBuiltinAny(fn) == "aten::add"
FindBuiltin(fn) == IF fn = "torch.add" THEN "aten::add" ELSE ""

\* args = args if args else ()
NormArgsEmpty(args) == <<>>
NormArgs(args) == IF args.k = "tuple" /\ Len(args.v) > 0 THEN args.v ELSE <<>>

----------------------------------------------------------------------------
(* The agent, from the design document *)

\* WorkerDirectory.resolve: a registered name or a member's id gives the id;
\* anything else is UnknownWorker (-1).
GetWorkerId(x) ==
    IF x.k \in {"int", "str"} /\ x.v \in Workers THEN x.v ELSE -1

\* The callee runs the function: add of two numbers returns their sum; any
\* other invocation raises, which is captured as a Failed result.
Execute(qn, args) ==
    IF qn = "aten::add" /\ Len(args) = 2
    THEN [ok |-> TRUE, val |-> args[1] + args[2]]
    ELSE [ok |-> FALSE, val |-> 0]

\* PendingCallTable.register allocates the agent's next CallId.
NextCallIdStuck(w, a) == 0
NextCallId(w, a) == nextId[w][a]

\* The handles of the futures of agent a of w that are still pending.
PendingOf(w, a) ==
    {h \in DOMAIN futs[w] : futs[w][h].a = a /\ futs[w][h].st = "Pending"}

\* PendingCallTable lookup: the entry for CallId id is the future inserted
\* last under it (0: no entry).
Lookup(w, a, id) ==
    LET hs == {h \in PendingOf(w, a) : futs[w][h].id = id}
    IN IF hs = {} THEN 0 ELSE CHOOSE h \in hs : \A g \in hs : g <= h

\* The agents of w that run (constructed, join not completed).
LiveAgents(w) == {a \in AgentIds : astate[w][a] \in {"Active", "Draining"}}

----------------------------------------------------------------------------
(* Threads *)

Idle ==
    [pc |-> "idle", op |-> "none", to |-> PyNone, qn |-> "", cur |-> None,
     fut |-> 0, snap |-> 0]

At(c, pc) == th[c].pc = pc

NoReturn == [c |-> <<0, 0>>, op |-> "none", kind |-> "none", val |-> 0]

\* Thread c goes on inside its call, with locals r.
Goto(c, r) == th' = [th EXCEPT ![c] = r] /\ ret' = NoReturn

\* Thread c returns from op (kind "ok", or "future" with the future's handle
\* in val) or raises out of it (kind names the error).
Return(c, op, kind, val) ==
    /\ th' = [th EXCEPT ![c] = Idle]
    /\ ret' = [c |-> c, op |-> op, kind |-> kind, val |-> val]

Init ==
    /\ agent = [w \in Workers |-> None]
    /\ nAgents = [w \in Workers |-> 0]
    /\ astate = [w \in Workers |-> [a \in AgentIds |-> "Unborn"]]
    /\ nextId = [w \in Workers |-> [a \in AgentIds |-> 0]]
    /\ futs = [w \in Workers |-> <<>>]
    /\ net = {}
    /\ th = [c \in AllCallers |-> Idle]
    /\ ret = NoReturn

\* def _check_initialized(): raises when _agent is None.
CheckInitializedNever(a) == TRUE
CheckInitialized(a) == a # None


----------------------------------------------------------------------------
(* init_rpc *)

\* if _agent: raise RuntimeError("RPC is already initialized")
InitRpcAlreadyNever(a) == FALSE
InitRpcAlready(a) == AgentTruthy(a)

\* Threads of w past the check of init_rpc and about to construct an agent.
Constructing(w) == {t \in Threads : th[<<w, t>>].pc = "init_construct"}

\* init_rpc constructing the agent whatever the backend tag.
InitRpcCheckAnyBackend(c, backend) ==
    LET w == c[1] IN
    /\ At(c, "idle")
    /\ IF InitRpcAlready(agent[w])
       THEN Return(c, "init_rpc", "AlreadyInitialized", 0)
       ELSE /\ nAgents[w] + Cardinality(Constructing(w)) < MaxAgents
            /\ Goto(c, [Idle EXCEPT !.pc = "init_construct", !.op = "init_rpc"])
    /\ UNCHANGED <<agent, nAgents, astate, nextId, futs, net>>

\* init_rpc up to the backend test: the check of _agent, then backend == 'pg'.
InitRpcCheck(c, backend) ==
    LET w == c[1] IN
    /\ At(c, "idle")
    /\ IF InitRpcAlready(agent[w])
       THEN Return(c, "init_rpc", "AlreadyInitialized", 0)
       ELSE IF backend = "pg"
            THEN /\ nAgents[w] + Cardinality(Constructing(w)) < MaxAgents
                 /\ Goto(c, [Idle EXCEPT !.pc = "init_construct",
                                         !.op = "init_rpc"])
            ELSE Return(c, "init_rpc", "UnknownBackend", 0)
    /\ UNCHANGED <<agent, nAgents, astate, nextId, futs, net>>

\* init_rpc binding the agent of the session before, when there was one,
\* instead of constructing a new one.
InitRpcConstructReuse(c) ==
    LET w == c[1]
        a == IF nAgents[w] = 0 THEN 1 ELSE nAgents[w]
    IN
    /\ At(c, "init_construct")
    /\ nAgents' = [nAgents EXCEPT ![w] = a]
    /\ astate' = [astate EXCEPT ![w][a] =
                        IF nAgents[w] = 0 THEN "Active" ELSE @]
    /\ agent' = [agent EXCEPT ![w] = a]
    /\ Return(c, "init_rpc", "ok", 0)
    /\ UNCHANGED <<nextId, futs, net>>

\* _agent = ProcessGroupAgent(name, group): a new agent, Active, is bound.
InitRpcConstruct(c) ==
    LET w == c[1]
        a == nAgents[w] + 1
    IN
    /\ At(c, "init_construct")
    /\ a \in AgentIds
    /\ nAgents' = [nAgents EXCEPT ![w] = a]
    /\ astate' = [astate EXCEPT ![w][a] = "Active"]
    /\ agent' = [agent EXCEPT ![w] = a]
    /\ Return(c, "init_rpc", "ok", 0)
    /\ UNCHANGED <<nextId, futs, net>>

----------------------------------------------------------------------------
(* join_rpc *)

\* if _agent:
JoinRpcBoundAlways(a) == TRUE
JoinRpcBound(a) == AgentTruthy(a)

\* join_rpc's test of _agent: nothing to do when it is None.
JoinRpcCheck(c) ==
    LET w == c[1] IN
    /\ At(c, "idle")
    /\ IF JoinRpcBound(agent[w])
       THEN Goto(c, [Idle EXCEPT !.pc = "join_call", !.op = "join_rpc"])
       ELSE Return(c, "join_rpc", "ok", 0)
    /\ UNCHANGED <<agent, nAgents, astate, nextId, futs, net>>

\* _agent.join(): the global is read again (None has no join: AttributeError);
\* the agent's join is valid in Active state and starts draining the calls
\* registered so far (CallIds below nextId).
JoinRpcCall(c) ==
    LET w == c[1]
        a == agent[w]
    IN
    /\ At(c, "join_call")
    /\ IF a = None
       THEN /\ Return(c, "join_rpc", "OtherError", 0)
            /\ UNCHANGED astate
       ELSE IF astate[w][a] = "Active"
            THEN /\ astate' = [astate EXCEPT ![w][a] = "Draining"]
                 /\ Goto(c, [th[c] EXCEPT !.pc = "join_drain", !.cur = a,
                                            !.snap = nextId[w][a]])
            ELSE /\ Return(c, "join_rpc", "NotInitialized", 0)
                 /\ UNCHANGED astate
    /\ UNCHANGED <<agent, nAgents, nextId, futs, net>>

\* Draining: every entry of the PendingCallTable has been waited on; the
\* thread enters the group barrier.
JoinDrained(c) ==
    /\ At(c, "join_drain")
    /\ PendingOf(c[1], th[c].cur) = {}
    /\ Goto(c, [th[c] EXCEPT !.pc = "join_barrier"])
    /\ UNCHANGED <<agent, nAgents, astate, nextId, futs, net>>

\* _agent = None, after _agent.join() returned.
JoinRpcClearSkip(c) ==
    /\ At(c, "join_clear")
    /\ Return(c, "join_rpc", "ok", 0)
    /\ UNCHANGED <<agent, nAgents, astate, nextId, futs, net>>

JoinRpcClear(c) ==
    /\ At(c, "join_clear")
    /\ agent' = [agent EXCEPT ![c[1]] = None]
    /\ Return(c, "join_rpc", "ok", 0)
    /\ UNCHANGED <<nAgents, astate, nextId, futs, net>>

----------------------------------------------------------------------------
(* sync_rpc *)

\* _check_initialized() of sync_rpc.
SyncRpcCheck(c) ==
    /\ At(c, "idle")
    /\ IF CheckInitialized(agent[c[1]])
       THEN Goto(c, [Idle EXCEPT !.pc = "sync_call", !.op = "sync_rpc"])
       ELSE Return(c, "sync_rpc", "NotInitialized", 0)
    /\ UNCHANGED <<agent, nAgents, astate, nextId, futs, net>>

\* sync_rpc returning without calling the agent's sync.
SyncRpcCallSkip(c) ==
    /\ At(c, "sync_call")
    /\ Return(c, "sync_rpc", "ok", 0)
    /\ UNCHANGED <<agent, nAgents, astate, nextId, futs, net>>

\* _agent.sync(): the global is read again; the agent's sync is valid in
\* Active state and waits for the calls pending now (CallIds below nextId).
SyncRpcCall(c) ==
    LET w == c[1]
        a == agent[w]
    IN
    /\ At(c, "sync_call")
    /\ IF a = None
       THEN Return(c, "sync_rpc", "OtherError", 0)
       ELSE IF astate[w][a] = "Active"
            THEN Goto(c, [th[c] EXCEPT !.pc = "sync_drain", !.cur = a,
                                       !.snap = nextId[w][a]])
            ELSE Return(c, "sync_rpc", "NotInitialized", 0)
    /\ UNCHANGED <<agent, nAgents, astate, nextId, futs, net>>

\* The calls that were pending when sync began are resolved; the thread
\* enters the group barrier.
SyncDrained(c) ==
    /\ At(c, "sync_drain")
    /\ \A h \in PendingOf(c[1], th[c].cur) : futs[c[1]][h].id >= th[c].snap
    /\ Goto(c, [th[c] EXCEPT !.pc = "sync_barrier"])
    /\ UNCHANGED <<agent, nAgents, astate, nextId, futs, net>>

----------------------------------------------------------------------------
(* The transport's barrier *)

InBarrier(w) ==
    {t \in Threads : th[<<w, t>>].pc \in {"join_barrier", "sync_barrier"}}

\* barrier() returns once every member of the group has called it: a joining
\* agent is Closed and its join returns; the agent's sync returns.
BarrierRelease ==
    /\ \A w \in Workers : InBarrier(w) # {}
    /\ th' = [c \in AllCallers |->
                CASE th[c].pc = "join_barrier" ->
                        [th[c] EXCEPT !.pc = "join_clear"]
                  [] th[c].pc = "sync_barrier" ->
                        [th[c] EXCEPT !.pc = "sync_return"]
                  [] OTHER -> th[c]]
    /\ astate' = [w \in Workers |-> [a \in AgentIds |->
                    IF \E t \in Threads : /\ th[<<w, t>>].pc = "join_barrier"
                                          /\ th[<<w, t>>].cur = a
                    THEN "Closed" ELSE astate[w][a]]]
    /\ ret' = NoReturn
    /\ UNCHANGED <<agent, nAgents, nextId, futs, net>>

\* sync_rpc unbinding the agent when _agent.sync() has returned.
SyncRpcReturnUnbind(c) ==
    /\ At(c, "sync_return")
    /\ agent' = [agent EXCEPT ![c[1]] = None]
    /\ Return(c, "sync_rpc", "ok", 0)
    /\ UNCHANGED <<nAgents, astate, nextId, futs, net>>

\* sync_rpc returns after _agent.sync() returned.
SyncRpcReturn(c) ==
    /\ At(c, "sync_return")
    /\ Return(c, "sync_rpc", "ok", 0)
    /\ UNCHANGED <<agent, nAgents, astate, nextId, futs, net>>


\* A transport failure aborts the drain or the barrier wait of the agent's
\* join or sync: the call of line 27 or line 39 raises, and the statement
\* after it is not reached.
TransportFail(c) ==
    /\ th[c].pc \in {"join_drain", "join_barrier", "sync_drain", "sync_barrier"}
    /\ Return(c, th[c].op, "TransportError", 0)
    /\ UNCHANGED <<agent, nAgents, astate, nextId, futs, net>>

----------------------------------------------------------------------------
(* get_id *)

\* _check_initialized() of get_id.  workerName is passed through untouched
\* until line 73, where the model draws it.
GetIdCheck(c) ==
    /\ At(c, "idle")
    /\ IF CheckInitialized(agent[c[1]])
       THEN Goto(c, [Idle EXCEPT !.pc = "getid_call", !.op = "get_id"])
       ELSE Return(c, "get_id", "NotInitialized", 0)
    /\ UNCHANGED <<agent, nAgents, astate, nextId, futs, net>>

\* if workerName: return _agent.get_worker_id(workerName)
\* else: return _agent.get_id()
GetIdCall(c, workerName) ==
    LET w == c[1]
        a == agent[w]
    IN
    /\ At(c, "getid_call")
    /\ IF a = None
       THEN Return(c, "get_id", "OtherError", 0)
       ELSE IF astate[w][a] = "Closed"
            THEN Return(c, "get_id", "NotInitialized", 0)
            ELSE IF Truthy(workerName)
                 THEN IF GetWorkerId(workerName) = -1
                      THEN Return(c, "get_id", "UnknownWorker", 0)
                      ELSE Return(c, "get_id", "ok", GetWorkerId(workerName))
                 ELSE Return(c, "get_id", "ok", w)
    /\ UNCHANGED <<agent, nAgents, astate, nextId, futs, net>>

----------------------------------------------------------------------------
(* rpc *)

\* Threads of w between the check of rpc and its dispatch.
Dispatching(w) ==
    {t \in Threads : th[<<w, t>>].pc \in {"rpc_resolve", "rpc_invoke"}}

\* rpc up to line 143: _check_initialized() and _find_builtin(func).  The
\* arguments to, args and async_call are passed through untouched until lines
\* 147 and 149, where the model draws them.
RpcCheck(c, fn) ==
    LET w == c[1] IN
    /\ At(c, "idle")
    /\ IF ~CheckInitialized(agent[w])
       THEN Return(c, "rpc", "NotInitialized", 0)
       ELSE IF FindBuiltin(fn) = ""
            THEN Return(c, "rpc", "UnknownFunction", 0)
            ELSE /\ Len(futs[w]) + Cardinality(Dispatching(w)) < MaxCalls
                 /\ Goto(c, [Idle EXCEPT !.pc = "rpc_resolve", !.op = "rpc",
                                         !.qn = FindBuiltin(fn)])
    /\ UNCHANGED <<agent, nAgents, astate, nextId, futs, net>>

\* if isinstance(to, str): to = _agent.get_worker_id(to)
RpcResolve(c, to) ==
    LET w == c[1]
        a == agent[w]
    IN
    /\ At(c, "rpc_resolve")
    /\ IF ~IsStr(to)
       THEN Goto(c, [th[c] EXCEPT !.pc = "rpc_invoke", !.to = to])
       ELSE IF a = None
       THEN Return(c, "rpc", "OtherError", 0)
       ELSE IF astate[w][a] = "Closed"
            THEN Return(c, "rpc", "NotInitialized", 0)
            ELSE IF GetWorkerId(to) = -1
                 THEN Return(c, "rpc", "UnknownWorker", 0)
                 ELSE Goto(c, [th[c] EXCEPT !.pc = "rpc_invoke",
                                            !.to = PyInt(GetWorkerId(to))])
    /\ UNCHANGED <<agent, nAgents, astate, nextId, futs, net>>

\* args = args if args else (); fut = invoke_rpc(_agent, to, qualified_name,
\* *args, **kwargs): the agent's dispatch, valid in Active state, registers a
\* future under a fresh CallId and hands the request to the transport.
\* if async_call: return fut.
RpcInvoke(c, args, async) ==
    LET w == c[1]
        a == agent[w]
        id == NextCallId(w, a)
        h == Len(futs[w]) + 1
    IN
    /\ At(c, "rpc_invoke")
    /\ IF a = None
       THEN /\ Return(c, "rpc", "OtherError", 0)
            /\ UNCHANGED <<nextId, futs, net>>
       ELSE IF astate[w][a] # "Active"
            THEN /\ Return(c, "rpc", "NotInitialized", 0)
                 /\ UNCHANGED <<nextId, futs, net>>
            ELSE IF GetWorkerId(th[c].to) = -1
                 THEN /\ Return(c, "rpc", "UnknownWorker", 0)
                      /\ UNCHANGED <<nextId, futs, net>>
                 ELSE /\ Len(futs[w]) < MaxCalls
                      /\ nextId' = [nextId EXCEPT ![w][a] = @ + 1]
                      /\ futs' = [futs EXCEPT ![w] = Append(@,
                            [a |-> a, id |-> id, uargs |-> args,
                             st |-> "Pending", val |-> 0])]
                      /\ net' = net \cup
                            {[t |-> "call", src |-> w, a |-> a, id |-> id,
                              dst |-> th[c].to.v, qn |-> th[c].qn,
                              args |-> NormArgs(args), ok |-> TRUE,
                              val |-> 0]}
                      /\ IF async
                         THEN Return(c, "rpc", "future", h)
                         ELSE Goto(c, [Idle EXCEPT !.pc = "rpc_wait",
                                          !.op = "rpc", !.cur = a, !.fut = h])
    /\ UNCHANGED <<agent, nAgents, astate>>

\* InvocationFuture.wait on a terminal future: its value, or its error.
FutureKind(w, h) ==
    IF futs[w][h].st = "Fulfilled" THEN "ok" ELSE "RemoteExecutionError"

FutureValue(w, h) == futs[w][h].val

\* return fut.wait() returning whatever the future holds, terminal or not.
RpcWaitEarly(c) ==
    /\ At(c, "rpc_wait")
    /\ Return(c, "rpc", FutureKind(c[1], th[c].fut), FutureValue(c[1], th[c].fut))
    /\ UNCHANGED <<agent, nAgents, astate, nextId, futs, net>>

\* return fut.wait() with the error of a failed future swallowed.
RpcWaitSwallow(c) ==
    /\ At(c, "rpc_wait")
    /\ futs[c[1]][th[c].fut].st # "Pending"
    /\ Return(c, "rpc", "ok", FutureValue(c[1], th[c].fut))
    /\ UNCHANGED <<agent, nAgents, astate, nextId, futs, net>>

\* return fut.wait(): blocks until the future is terminal.
RpcWait(c) ==
    /\ At(c, "rpc_wait")
    /\ futs[c[1]][th[c].fut].st # "Pending"
    /\ Return(c, "rpc", FutureKind(c[1], th[c].fut), FutureValue(c[1], th[c].fut))
    /\ UNCHANGED <<agent, nAgents, astate, nextId, futs, net>>

\* The caller of an asynchronous rpc waits on a future it holds.
FutureWaitCall(c, h) ==
    /\ At(c, "idle")
    /\ h \in DOMAIN futs[c[1]]
    /\ Goto(c, [Idle EXCEPT !.pc = "fut_wait", !.op = "wait", !.fut = h])
    /\ UNCHANGED <<agent, nAgents, astate, nextId, futs, net>>

FutureWait(c) ==
    /\ At(c, "fut_wait")
    /\ futs[c[1]][th[c].fut].st # "Pending"
    /\ Return(c, "wait", FutureKind(c[1], th[c].fut), FutureValue(c[1], th[c].fut))
    /\ UNCHANGED <<agent, nAgents, astate, nextId, futs, net>>

----------------------------------------------------------------------------
(* The delivery path of the agent: on_delivery *)

\* An incoming call: a running agent of the callee executes it, catching any
\* error, and sends the completion back.
DeliverCall(m) ==
    /\ m.t = "call"
    /\ LiveAgents(m.dst) # {}
    /\ net' = (net \ {m}) \cup
            {[m EXCEPT !.t = "ret", !.ok = Execute(m.qn, m.args).ok,
                       !.val = Execute(m.qn, m.args).val]}
    /\ ret' = NoReturn
    /\ UNCHANGED <<agent, nAgents, astate, nextId, futs, th>>

\* An incoming completion: routed by CallId through the PendingCallTable; a
\* completion with no entry is dropped.
DeliverCompletion(m) ==
    LET h == Lookup(m.src, m.a, m.id) IN
    /\ m.t = "ret"
    /\ m.a \in LiveAgents(m.src)
    /\ net' = net \ {m}
    /\ IF h = 0
       THEN UNCHANGED futs
       ELSE futs' = [futs EXCEPT ![m.src][h].st =
                                    IF m.ok THEN "Fulfilled" ELSE "Failed",
                                 ![m.src][h].val = m.val]
    /\ ret' = NoReturn
    /\ UNCHANGED <<agent, nAgents, astate, nextId, th>>

----------------------------------------------------------------------------
(* Specifications *)

\* The docstring's example group: worker 0 issues the calls ("worker0"), the
\* other workers serve them.
Clients == {c \in AllCallers : c[1] = 0}
Servers == {c \in AllCallers : c[1] # 0 /\ c[2] = 1}
\* The main thread of each.
MainClients == {c \in Clients : c[2] = 1}
MainCallers == MainClients \cup Servers

\* The arguments the calling threads draw from.
Backends == {"pg", "mpi"}
Funcs == {"torch.add", "my_func"}
ToArgs == {PyStr(w) : w \in Workers \ {0}} \cup {PyInt(w) : w \in Workers \ {0}}
            \cup {UnknownName}
NameArgs == {PyNone, UnknownName} \cup {PyStr(w) : w \in Workers}
                \cup {PyInt(w) : w \in Workers}
ArgsArgs == {ArgsTuple(<<1, 1>>), ArgsTuple(<<2, 2>>)}

\* One step of thread c in init_rpc or join_rpc.
SessionStep(c) ==
    \/ \E b \in Backends : InitRpcCheck(c, b)
    \/ InitRpcConstruct(c)
    \/ JoinRpcCheck(c)
    \/ JoinRpcCall(c)
    \/ JoinDrained(c)
    \/ JoinRpcClear(c)

\* One step of thread c in sync_rpc.
SyncStep(c) ==
    \/ SyncRpcCheck(c)
    \/ SyncRpcCall(c)
    \/ SyncDrained(c)
    \/ SyncRpcReturn(c)

\* One step of thread c in get_id.
GetIdStep(c) ==
    \/ GetIdCheck(c)
    \/ \E n \in NameArgs : GetIdCall(c, n)

\* One step of thread c in rpc.
RpcStep(c) ==
    \/ \E fn \in Funcs : RpcCheck(c, fn)
    \/ \E to \in ToArgs : RpcResolve(c, to)
    \/ \E args \in ArgsArgs, async \in BOOLEAN : RpcInvoke(c, args, async)
    \/ RpcWait(c)

\* One step of thread c waiting on a future an asynchronous rpc returned.
WaitStep(c) ==
    \/ \E h \in 1 .. MaxCalls : FutureWaitCall(c, h)
    \/ FutureWait(c)

\* One delivery by the transport.
DeliverStep ==
    \/ \E m \in net : DeliverCall(m)
    \/ \E m \in net : DeliverCompletion(m)

\* Worker 0 runs NumThreads calling threads, each any function of rpc.py; the
\* servers open and close sessions.
Next ==
    \/ \E c \in Clients \cup Servers : SessionStep(c)
    \/ \E c \in Clients : SyncStep(c) \/ GetIdStep(c) \/ RpcStep(c)
    \/ BarrierRelease
    \/ DeliverStep

Spec == Init /\ [][Next]_vars

\* Every process runs one calling thread.
NextGroup ==
    \/ \E c \in MainCallers : SessionStep(c) \/ SyncStep(c)
    \/ \E c \in MainClients : GetIdStep(c) \/ RpcStep(c) \/ WaitStep(c)
    \/ BarrierRelease
    \/ DeliverStep

SpecGroup == Init /\ [][NextGroup]_vars

\* The threads of worker 0 issue calls concurrently in a session the main
\* threads opened.
NextCalls ==
    \/ \E c \in MainCallers, b \in Backends : InitRpcCheck(c, b)
    \/ \E c \in MainCallers : InitRpcConstruct(c)
    \/ \E c \in Clients : RpcStep(c)
    \/ DeliverStep

SpecCalls == Init /\ [][NextCalls]_vars

\* Calls of torch.add with two numbers and with no arguments (args=None); the
\* latter raises in the callee.
RaiseArgs == {ArgsNone, ArgsTuple(<<1, 1>>)}

\* The threads of worker 0 issue calls, some of which raise remotely, and
\* wait on the futures.
NextRaise ==
    \/ \E c \in MainCallers, b \in Backends : InitRpcCheck(c, b)
    \/ \E c \in MainCallers : InitRpcConstruct(c)
    \/ \E c \in Clients, fn \in Funcs : RpcCheck(c, fn)
    \/ \E c \in Clients, to \in ToArgs : RpcResolve(c, to)
    \/ \E c \in Clients, args \in RaiseArgs, async \in BOOLEAN :
            RpcInvoke(c, args, async)
    \/ \E c \in Clients : RpcWait(c)
    \/ \E c \in MainClients : WaitStep(c)
    \/ DeliverStep

SpecRaise == Init /\ [][NextRaise]_vars

\* Every process looks identities up, from any of its threads, in a session
\* its main thread opened.
NextIdentity ==
    \/ \E c \in MainCallers, b \in Backends : InitRpcCheck(c, b)
    \/ \E c \in MainCallers : InitRpcConstruct(c)
    \/ \E c \in AllCallers : GetIdStep(c)

SpecIdentity == Init /\ [][NextIdentity]_vars

\* The threads of worker 0 and the main thread of every other worker open and
\* close sessions, and the transport may fail under a join.
NextFail ==
    \/ \E c \in Clients \cup Servers : SessionStep(c)
    \/ \E c \in Clients \cup Servers : TransportFail(c)
    \/ BarrierRelease

SpecFail == Init /\ [][NextFail]_vars

----------------------------------------------------------------------------
(* Properties *)

\* The operations that need a session.
RpcOps == {"sync_rpc", "get_id", "rpc"}

\* Thread c took this step and returned from (or raised out of) a call of op.
Returned(c, op) == ret'.c = c /\ ret'.op = op

\* Thread c, idle before this step, called op in it: it either returned at
\* once or is now inside op.
Called(c, op) ==
    /\ th[c].pc = "idle"
    /\ \/ Returned(c, op)
       \/ th'[c].pc # "idle" /\ th'[c].op = op

\* The step touched neither the session nor the agents nor the transport.
NothingDone ==
    UNCHANGED <<agent, nAgents, astate, nextId, futs, net>>

\* C1: with _agent None, sync_rpc, get_id and rpc each raise the "RPC has not
\* been initialized" error at once, whatever their arguments; no agent is
\* constructed, no message is sent and _agent stays None.
C1_NotInitialized ==
    [][\A c \in AllCallers : \A op \in RpcOps :
            (agent[c[1]] = None /\ Called(c, op)) =>
                /\ Returned(c, op)
                /\ ret'.kind = "NotInitialized"
                /\ th'[c].pc = "idle"
                /\ NothingDone]_vars

\* A call of rpc failed so in a process that never constructed an agent.
C1_Witness ==
    /\ ret.op = "rpc"
    /\ ret.kind = "NotInitialized"
    /\ nAgents[ret.c[1]] = 0
    /\ agent[ret.c[1]] = None

\* C2: init_rpc called while an agent is bound raises "RPC is already
\* initialized", whatever the backend; the agent stays bound, and no agent is
\* constructed.
C2_AlreadyInitialized ==
    [][\A c \in AllCallers :
            (agent[c[1]] # None /\ Called(c, "init_rpc")) =>
                /\ Returned(c, "init_rpc")
                /\ ret'.kind = "AlreadyInitialized"
                /\ th'[c].pc = "idle"
                /\ NothingDone]_vars

\* A second init_rpc failed in a process whose first agent is still bound.
C2_Witness ==
    /\ ret.op = "init_rpc"
    /\ ret.kind = "AlreadyInitialized"
    /\ agent[ret.c[1]] = 1
    /\ astate[ret.c[1]][1] = "Active"
    /\ nAgents[ret.c[1]] = 1

\* C3: at most one agent of a process is constructed and not yet torn down by
\* join, whatever the interleaving of the init_rpc and join_rpc calls of its
\* threads.
C3_AtMostOneAgent ==
    \A w \in Workers : Cardinality(LiveAgents(w)) <= 1

\* C4: sync_rpc, get_id and rpc run against an agent only while the session
\* is Active: racing with join_rpc in another thread they either run on the
\* agent or raise the not-initialized error; none of them raises any other
\* error from _agent vanishing between the initialized-check and its use
\* (the AttributeError of None.sync, None.get_id, None.get_worker_id, or the
\* rejection of None by invoke_rpc).
C4_OnlyWhileActive ==
    ret.op \in RpcOps => ret.kind # "OtherError"

\* Thread c returned normally from join_rpc in this step, having joined.
JoinReturned(c) ==
    Returned(c, "join_rpc") /\ ret'.kind = "ok" /\ th[c].pc = "join_clear"

\* A thread of w bound an agent in this step: init_rpc succeeded.
InitBound(w) ==
    \E t \in Threads : Returned(<<w, t>>, "init_rpc") /\ ret'.kind = "ok"

\* C5: when join_rpc returns from a session, _agent is None; from then on,
\* until init_rpc binds an agent again, _agent stays None and every sync_rpc,
\* get_id and rpc of the process raises the not-initialized error.
C5_DiscardedAfterJoin ==
    [][\A c \in AllCallers :
          /\ JoinReturned(c) => agent'[c[1]] = None
          /\ (agent[c[1]] = None /\ ~InitBound(c[1])) =>
                /\ agent'[c[1]] = None
                /\ \A op \in RpcOps :
                        Called(c, op) =>
                            Returned(c, op) /\ ret'.kind = "NotInitialized"]_vars

\* After a session was joined and closed, a sync_rpc failed.
C5_Witness ==
    /\ ret.op = "sync_rpc"
    /\ ret.kind = "NotInitialized"
    /\ nAgents[ret.c[1]] = 1
    /\ astate[ret.c[1]][1] = "Closed"
    /\ agent[ret.c[1]] = None

\* C6: join_rpc called with _agent None returns at once without an error; it
\* calls nothing on any agent, enters no barrier and leaves _agent None,
\* before any init_rpc and after a completed join_rpc alike.
C6_JoinNoOp ==
    [][\A c \in AllCallers :
            (agent[c[1]] = None /\ Called(c, "join_rpc")) =>
                /\ Returned(c, "join_rpc")
                /\ ret'.kind = "ok"
                /\ th'[c].pc = "idle"
                /\ NothingDone]_vars

\* join_rpc returned in a process that has never had an agent.
C6_Witness ==
    /\ ret.op = "join_rpc"
    /\ ret.kind = "ok"
    /\ nAgents[ret.c[1]] = 0

\* C7: join_rpc drains before it closes: it does not discard the agent (set
\* _agent to None) while a future of a call issued on that agent is still
\* pending.
C7_DrainBeforeClose ==
    [][\A w \in Workers :
            (agent[w] # None /\ agent'[w] = None) =>
                \A h \in DOMAIN futs[w] :
                    futs[w][h].a = agent[w] => futs[w][h].st # "Pending"]_vars

\* Worker w has a thread waiting in the group barrier at one of pcs.
AtBoundary(w, pcs) == \E t \in Threads : th[<<w, t>>].pc \in pcs

\* The agent's sync returns to thread c in this step.
SyncPassed(c) == th[c].pc = "sync_barrier" /\ th'[c].pc = "sync_return"

\* The entries of the PendingCallTable of c's agent that were created before
\* c called sync or join and are still pending.
PendingBefore(c) ==
    {h \in PendingOf(c[1], th[c].cur) : futs[c[1]][h].id < th[c].snap}

\* No thread waiting in the barrier at one of pcs left a call pending that
\* its worker had issued before.
SettledBefore(pcs) ==
    \A c \in AllCallers : th[c].pc \in pcs => PendingBefore(c) = {}

\* sync_rpc returns to c in this step only after the agent's sync returned,
\* and with no entry created before the call left in the PendingCallTable.
SyncReturnsDrained(c) ==
    (Returned(c, "sync_rpc") /\ ret'.kind = "ok") =>
        th[c].pc = "sync_return" /\ PendingBefore(c) = {}

ExpectedValue(f) == f.uargs.v[1] + f.uargs.v[2]

\* C9: completions are matched to calls by CallId: whatever the order in
\* which they arrive, a resolved future holds the value of its own call, and
\* a wait on it (the caller's, or the one of a blocking rpc) returns exactly
\* that value.
C9_MatchedByCallId ==
    [][/\ \A w \in Workers : \A h \in DOMAIN futs'[w] :
              futs'[w][h].st # "Pending" =>
                  /\ futs'[w][h].st = "Fulfilled"
                  /\ futs'[w][h].val = ExpectedValue(futs'[w][h])
       /\ \A c \in AllCallers :
              (th[c].pc \in {"rpc_wait", "fut_wait"} /\ ret'.c = c) =>
                  /\ ret'.kind = "ok"
                  /\ ret'.val = ExpectedValue(futs[c[1]][th[c].fut])]_vars

\* The second of two outstanding calls, add(2, 2), completed first and the
\* wait on it returned 4 while add(1, 1) is still pending.
C9_Witness ==
    /\ ret.op = "wait"
    /\ ret.val = 4
    /\ Len(futs[0]) = 2
    /\ futs[0][1].st = "Pending"
    /\ futs[0][1].uargs = ArgsTuple(<<1, 1>>)
    /\ futs[0][2].uargs = ArgsTuple(<<2, 2>>)
    /\ futs[0][1].a = futs[0][2].a

\* C10: rpc is thread-safe in call identity: however the rpc calls of the
\* threads of a process interleave, no two futures of an agent carry the same
\* CallId, pending or not.
C10_DistinctCallIds ==
    \A w \in Workers : \A g, h \in DOMAIN futs[w] :
        (g # h /\ futs[w][g].a = futs[w][h].a) => futs[w][g].id # futs[w][h].id

\* Two threads of worker 0 are blocked in rpc on two pending calls.
C10_Witness ==
    /\ th[<<0, 1>>].pc = "rpc_wait"
    /\ th[<<0, 2>>].pc = "rpc_wait"
    /\ th[<<0, 1>>].fut # th[<<0, 2>>].fut
    /\ futs[0][th[<<0, 1>>].fut].st = "Pending"
    /\ futs[0][th[<<0, 2>>].fut].st = "Pending"

\* Thread c dispatches in this step: line 149 registers a future and hands
\* the call to the transport.
Dispatched(c) ==
    /\ th[c].pc = "rpc_invoke"
    /\ Len(futs'[c[1]]) = Len(futs[c[1]]) + 1
    /\ Cardinality(net') = Cardinality(net) + 1

\* C11: rpc with async_call=True returns the future in the step that
\* dispatched the call, while the future is still pending and whatever
\* becomes of the completion; rpc with async_call=False returns only from its
\* wait on the future of its own dispatch, once that future is terminal; in
\* both modes the call is dispatched exactly once, by the same step.
C11_AsyncReturnsAtOnce ==
    [][\A c \in AllCallers :
          /\ (Returned(c, "rpc") /\ ret'.kind = "future") =>
                /\ Dispatched(c)
                /\ ret'.val = Len(futs'[c[1]])
                /\ futs'[c[1]][ret'.val].st = "Pending"
          /\ (Returned(c, "rpc") /\ ret'.kind \in {"ok", "RemoteExecutionError"}) =>
                /\ th[c].pc = "rpc_wait"
                /\ futs[c[1]][th[c].fut].st # "Pending"
                /\ UNCHANGED <<futs, net, nextId>>
          /\ th'[c].pc = "rpc_wait" =>
                \/ th[c].pc = "rpc_wait" /\ th'[c].fut = th[c].fut
                \/ /\ Dispatched(c)
                   /\ th'[c].fut = Len(futs'[c[1]])
                   /\ futs'[c[1]][th'[c].fut].st = "Pending"]_vars

\* An asynchronous rpc has just returned its future; the call is still with
\* the transport, not delivered to the callee.
C11_Witness ==
    /\ ret.op = "rpc"
    /\ ret.kind = "future"
    /\ futs[ret.c[1]][ret.val].st = "Pending"
    /\ \E m \in net : /\ m.t = "call"
                      /\ m.src = ret.c[1]
                      /\ m.id = futs[ret.c[1]][ret.val].id

\* The call behind future f raises in the callee: add with no arguments.
Raises(f) == Len(NormArgs(f.uargs)) # 2

\* C12: a remote function that raises surfaces RemoteExecutionError only at
\* the wait point: the dispatch of such a call registers a pending future
\* like any other and, when asynchronous, returns it; the error is raised only
\* by a wait (the caller's, or the one of a blocking rpc) on the future of a
\* call that raised, and by every such wait; delivering the call leaves the
\* callee's agent running, and the calls that do not raise are still served
\* with their results.
C12_RemoteErrorAtWait ==
    [][/\ \A c \in AllCallers :
            /\ ret'.c = c /\ ret'.kind = "RemoteExecutionError" =>
                    /\ th[c].pc \in {"rpc_wait", "fut_wait"}
                    /\ Raises(futs[c[1]][th[c].fut])
            /\ ret'.c = c /\ th[c].pc \in {"rpc_wait", "fut_wait"}
                          /\ Raises(futs[c[1]][th[c].fut]) =>
                    ret'.kind = "RemoteExecutionError"
            /\ (Dispatched(c) /\ th'[c] # th[c]) =>
                    /\ futs'[c[1]][Len(futs'[c[1]])].st = "Pending"
                    /\ \/ ret'.c = c /\ ret'.kind = "future"
                       \/ th'[c].pc = "rpc_wait"
       /\ \A w \in Workers : \A h \in DOMAIN futs'[w] :
            /\ futs'[w][h].st = "Failed" => Raises(futs'[w][h])
            /\ futs'[w][h].st = "Fulfilled" =>
                    ~Raises(futs'[w][h]) /\ futs'[w][h].val = 2
       /\ (\E m \in net : m.t = "call" /\ m \notin net') =>
            UNCHANGED <<agent, astate>>]_vars

\* A blocking rpc was served and returned its value although an earlier call
\* to the same callee had raised there.
C12_Witness ==
    /\ ret.op = "rpc"
    /\ ret.kind = "ok"
    /\ ret.val = 2
    /\ Len(futs[0]) = 2
    /\ futs[0][1].st = "Failed"
    /\ futs[0][2].st = "Fulfilled"

\* The session of worker w is Active: an agent is bound and running.
SessionActive(w) == agent[w] # None /\ astate[w][agent[w]] = "Active"

\* C13: rpc in an Active session with the name of no worker of the group as
\* destination fails with UnknownWorker when it resolves the name, before the
\* dispatch: no CallId is allocated, no future is registered and nothing is
\* handed to the transport; and no other step of rpc raises UnknownWorker
\* having done any of these.
C13_UnknownWorkerBeforeSend ==
    [][\A c \in AllCallers :
          /\ (RpcResolve(c, UnknownName) /\ SessionActive(c[1])) =>
                /\ Returned(c, "rpc")
                /\ ret'.kind = "UnknownWorker"
                /\ UNCHANGED <<agent, astate, nextId, futs, net>>
          /\ (Returned(c, "rpc") /\ ret'.kind = "UnknownWorker") =>
                /\ th[c].pc = "rpc_resolve"
                /\ UNCHANGED <<agent, astate, nextId, futs, net>>]_vars

\* rpc has just failed with UnknownWorker in an Active session that has sent
\* nothing.
C13_Witness ==
    /\ ret.op = "rpc"
    /\ ret.kind = "UnknownWorker"
    /\ SessionActive(ret.c[1])
    /\ futs[ret.c[1]] = <<>>
    /\ nextId[ret.c[1]][agent[ret.c[1]]] = 0
    /\ net = {}

\* C14: rpc in an Active session with a func that resolves to no qualified
\* name fails with UnknownFunction right after the initialization check,
\* before it looks at the destination, at args or at async_call: no pending
\* call is registered and no message is sent; and UnknownFunction is raised
\* by no later step of rpc.
C14_UnknownFunctionFirst ==
    [][\A c \in AllCallers :
          /\ (RpcCheck(c, "my_func") /\ SessionActive(c[1])) =>
                /\ Returned(c, "rpc")
                /\ ret'.kind = "UnknownFunction"
                /\ UNCHANGED <<agent, astate, nextId, futs, net>>
          /\ (Returned(c, "rpc") /\ ret'.kind = "UnknownFunction") =>
                /\ th[c].pc = "idle"
                /\ UNCHANGED <<agent, astate, nextId, futs, net>>]_vars

\* rpc has just failed with UnknownFunction in an Active session that has a
\* call outstanding.
C14_Witness ==
    /\ ret.op = "rpc"
    /\ ret.kind = "UnknownFunction"
    /\ SessionActive(ret.c[1])
    /\ Len(futs[ret.c[1]]) = 1
    /\ futs[ret.c[1]][1].st = "Pending"

\* C15: identity lookup in an Active session: get_id with no argument
\* returns the local worker's id; with the name or the id of a member of the
\* group it returns that member's id; with a name of no member it fails with
\* UnknownWorker.
C15_IdentityLookup ==
    [][\A c \in AllCallers : \A n \in NameArgs :
          (GetIdCall(c, n) /\ SessionActive(c[1])) =>
              /\ Returned(c, "get_id")
              /\ IF n = PyNone
                 THEN ret'.kind = "ok" /\ ret'.val = c[1]
                 ELSE IF n.v \in Workers
                      THEN ret'.kind = "ok" /\ ret'.val = n.v
                      ELSE ret'.kind = "UnknownWorker"]_vars

\* C16: init_rpc with a backend other than 'pg' in a process with no agent
\* is rejected with the unrecognized-backend error and leaves everything as
\* it was, _agent None; while _agent stays None after that, sync_rpc, get_id
\* and rpc fail with NotInitialized, and init_rpc with backend 'pg' goes on to
\* construct the agent, which binds it and returns.
C16_UnknownBackendRejected ==
    [][\A c \in AllCallers :
          /\ (InitRpcCheck(c, "mpi") /\ agent[c[1]] = None) =>
                /\ Returned(c, "init_rpc")
                /\ ret'.kind = "UnknownBackend"
                /\ agent'[c[1]] = None
                /\ NothingDone
          /\ (Returned(c, "init_rpc") /\ ret'.kind = "UnknownBackend") =>
                agent[c[1]] = None /\ NothingDone
          /\ (ret.kind = "UnknownBackend" /\ ret.c[1] = c[1]
                    /\ agent[c[1]] = None) =>
                /\ (SyncRpcCheck(c) \/ GetIdCheck(c)
                        \/ \E fn \in Funcs : RpcCheck(c, fn)) =>
                        ret'.kind = "NotInitialized"
                /\ InitRpcCheck(c, "pg") => th'[c].pc = "init_construct"
          /\ (At(c, "init_construct") /\ th'[c] # th[c]) =>
                /\ Returned(c, "init_rpc")
                /\ ret'.kind = "ok"
                /\ agent'[c[1]] # None
                /\ astate'[c[1]][agent'[c[1]]] = "Active"]_vars

\* init_rpc with an unrecognized backend has just been rejected in a process
\* that never had an agent.
C16_Witness ==
    /\ ret.op = "init_rpc"
    /\ ret.kind = "UnknownBackend"
    /\ agent[ret.c[1]] = None
    /\ nAgents[ret.c[1]] = 0

\* The join of the agent fails under thread c in this step.
JoinFails(c) == TransportFail(c) /\ th[c].op = "join_rpc"

\* C17: join_rpc discards the singleton only after the agent's join has
\* returned: _agent is set to None only by a thread whose _agent.join() has
\* returned; if the agent's join fails, the error comes out of join_rpc and
\* _agent stays bound, and an init_rpc that follows fails with
\* AlreadyInitialized and constructs nothing.
C17_JoinFailureKeepsAgent ==
    [][\A c \in AllCallers :
          /\ (agent[c[1]] # None /\ agent'[c[1]] = None) =>
                \E t \in Threads : /\ th[<<c[1], t>>].pc = "join_clear"
                                   /\ th'[<<c[1], t>>].pc = "idle"
          /\ JoinFails(c) =>
                /\ Returned(c, "join_rpc")
                /\ ret'.kind = "TransportError"
                /\ agent'[c[1]] # None
                /\ UNCHANGED <<agent, nAgents>>
          /\ (ret.c = c /\ ret.op = "join_rpc" /\ ret.kind = "TransportError") =>
                \A b \in Backends : InitRpcCheck(c, b) =>
                    /\ ret'.kind = "AlreadyInitialized"
                    /\ UNCHANGED <<agent, nAgents, astate>>]_vars

\* C18: the session lifecycle is re-enterable: a join_rpc that completes
\* leaves the process uninitialized (_agent None); in an uninitialized process
\* init_rpc with backend 'pg' is not rejected, however many sessions the
\* process has had, and the init_rpc that completes binds a fresh agent: one
\* never bound before, Active, with no call issued on it.
C18_LifecycleReenterable ==
    [][\A c \in AllCallers :
          /\ (Returned(c, "join_rpc") /\ ret'.kind = "ok"
                    /\ th[c].pc = "join_clear") =>
                agent'[c[1]] = None
          /\ (InitRpcCheck(c, "pg") /\ agent[c[1]] = None) =>
                th'[c].pc = "init_construct"
          /\ (At(c, "init_construct") /\ th'[c] # th[c]) =>
                /\ Returned(c, "init_rpc")
                /\ ret'.kind = "ok"
                /\ agent'[c[1]] # None
                /\ astate[c[1]][agent'[c[1]]] = "Unborn"
                /\ astate'[c[1]][agent'[c[1]]] = "Active"
                /\ nextId'[c[1]][agent'[c[1]]] = 0
                /\ PendingOf(c[1], agent'[c[1]]) = {}
                /\ \A a \in AgentIds \ {agent'[c[1]]} :
                        astate'[c[1]][a] = astate[c[1]][a]]_vars

\* Worker 0 has opened its second session after the first one, in which it
\* issued a call, was joined and closed.
C18_Witness ==
    /\ ret.op = "init_rpc"
    /\ ret.kind = "ok"
    /\ ret.c[1] = 0
    /\ agent[0] = 2
    /\ astate[0][1] = "Closed"
    /\ astate[0][2] = "Active"
    /\ Len(futs[0]) = 1
    /\ futs[0][1].a = 1

\* Thread c takes this step inside sync_rpc, get_id or rpc (or a wait on a
\* future), or starts or ends one of them with it.
StepOfRpcOp(c) ==
    /\ th'[c] # th[c] \/ ret'.c = c
    /\ \/ th[c].op \in RpcOps \cup {"wait"}
       \/ th'[c].op \in RpcOps \cup {"wait"}
       \/ ret'.c = c /\ ret'.op \in RpcOps \cup {"wait"}

\* C19: only init_rpc and join_rpc change which agent is bound: _agent
\* changes only in the step of a thread that binds in init_rpc or clears in
\* join_rpc; no step of sync_rpc, get_id or rpc, returning or failing, changes
\* _agent, nor the state of any agent that no join_rpc is closing, so a session
\* that was Active stays Active; and after any of them has returned or failed
\* in an Active session, rpc is not turned away by the initialization check.
C19_OnlyInitAndJoinBind ==
    [][/\ agent' # agent =>
            \E c \in AllCallers :
                /\ th[c].pc \in {"init_construct", "join_clear"}
                /\ th'[c].pc = "idle"
                /\ ret'.c = c
                /\ ret'.op \in {"init_rpc", "join_rpc"}
       /\ \A c \in AllCallers :
            /\ StepOfRpcOp(c) =>
                /\ agent' = agent
                /\ \A a \in AgentIds :
                        astate'[c[1]][a] # astate[c[1]][a] =>
                            \E t \in Threads :
                                /\ th[<<c[1], t>>].pc = "join_barrier"
                                /\ th[<<c[1], t>>].cur = a
            /\ (ret.c = c /\ ret.op \in RpcOps /\ SessionActive(c[1])) =>
                    \A fn \in Funcs : RpcCheck(c, fn) =>
                        ret'.kind # "NotInitialized"]_vars

\* get_id has just failed with UnknownWorker in an Active session that has a
\* call outstanding; the agent is still bound and Active.
C19_Witness ==
    /\ ret.op = "get_id"
    /\ ret.kind = "UnknownWorker"
    /\ SessionActive(ret.c[1])
    /\ PendingOf(ret.c[1], agent[ret.c[1]]) # {}

====
